---- MODULE Spec2Model ----
(***************************************************************************)
(* Model of scripts/generate_test_data.py: generate_dataset builds a       *)
(* synthetic table from a seeded random stream, injects missing values,    *)
(* and writes the table to a parquet and a csv file.                       *)
(*                                                                         *)
(* Numbers.  Floats are fixed-point integers in units of 0.05 (1/NoiseDen),*)
(* so randn() * 0.05 is exact.  np.random.random() yields k/Scale for      *)
(* k in 0..Scale-1, and missing_rate is given in the same units, so        *)
(* missing_rate = Scale is the rate 1.0 and missing_rate = 0 the rate 0.0. *)
(***************************************************************************)
EXTENDS Integers, Sequences, FiniteSets, TLC

\* ---------------------------------------------------------------- bounds
MaxRows == 2
MaxNumCols == 2
MaxCatCols == 1
MaxCorrelatedPairs == 3
MaxHighMissingCols == 1

\* ------------------------------------------------------------- constants
Seed == 42
NoiseDen == 20
Scale == 4

\* the (output_dir, base_name) pairs tried: the defaults and one other
Targets == {<<"test_data", "large_test">>, <<"out", "bench">>}
MissingRates == {-1, 0, Scale \div 2, Scale, Scale + 1}

\* ---------------------------------------------------------- cell values
Float(x) == [t |-> "float", v |-> x]
Int64(x) == [t |-> "int", v |-> x]
Str(s) == [t |-> "str", s |-> s]
NaN == [t |-> "nan"]
None == [t |-> "None"]
Unset == [t |-> "unset"]

categories == <<Str("A"), Str("B"), Str("C"), Str("D"), Str("E"), None>>

\* ------------------------------------------------------- np.random state
\* The global generator: a state, a step, and an output per step.
\* np.random.seed(seed); the variant leaves the generator as it was
NpRandomSeed_NoReseed(g, seed) == g
NpRandomSeed(g, seed) == seed % 256

NextState(s) == (s * 141 + 3) % 256
Out(s) == s \div 8

\* the state after n draws
RECURSIVE Advance(_, _)
Advance(s, n) == IF n <= 0 THEN s ELSE Advance(NextState(s), n - 1)

\* np.random.randn(n): standard-normal draws, here -2..2, in fixed point
Randn(s, n) == [r \in 1..n |-> Float(NoiseDen * ((Out(Advance(s, r)) % 5) - 2))]

\* np.random.random(n): draws in [0, 1), in units of 1/Scale
Random(s, n) == [r \in 1..n |-> Out(Advance(s, r)) % Scale]

\* np.random.randint(low, high, n): draws in low..high-1; the variant takes
\* high as inclusive
RandInt_HighInclusive(s, low, high, n) ==
    [r \in 1..n |-> Int64(low + (Out(Advance(s, r)) % (high - low + 1)))]
RandInt(s, low, high, n) ==
    [r \in 1..n |-> Int64(low + (Out(Advance(s, r)) % (high - low)))]

\* np.random.choice(a, n): n elements of a, drawn uniformly
Choice(s, a, n) == [r \in 1..n |-> a[1 + (Out(Advance(s, r)) % Len(a))]]

\* ----------------------------------------------------- float arithmetic
IsNaN(c) == c.t = "nan"
Add(a, b) == IF IsNaN(a) \/ IsNaN(b) THEN NaN ELSE Float(a.v + b.v)
\* x * 0.05
Mul005(a) == IF IsNaN(a) THEN NaN ELSE Float(a.v \div NoiseDen)
\* astype(np.float32): every value of the model is exactly representable
AsFloat32(col) == [r \in DOMAIN col |-> IF IsNaN(col[r]) THEN NaN ELSE Float(col[r].v)]

\* -------------------------------------------------------- column names
Digit(d) == SubSeq("0123456789", d + 1, d + 1)

RECURSIVE Decimal(_)
Decimal(n) == IF n < 10 THEN Digit(n) ELSE Decimal(n \div 10) \o Digit(n % 10)

RECURSIVE ZeroPad(_, _)
ZeroPad(s, w) == IF Len(s) >= w THEN s ELSE ZeroPad("0" \o s, w)

\* f"{i:04d}"
Format04d(i) == ZeroPad(Decimal(i), 4)

NumName(i) == "num_" \o Format04d(i)
\* the variant of CorrName reuses the base column's name
CorrName_Unprefixed(i) == "num_" \o Format04d(i)
CorrName(i) == "num_corr_" \o Format04d(i)
CatName(i) == "cat_" \o Format04d(i)
HighMissingName(i) == "high_missing_" \o Format04d(i)

StartsWith(s, p) == Len(s) >= Len(p) /\ SubSeq(s, 1, Len(p)) = p

\* the filter of numeric_cols_list; the variants drop its second test, or both
IsPlainNumeric_PrefixOnly(c) == StartsWith(c, "num_")
IsPlainNumeric_Everything(c) == TRUE
IsPlainNumeric(c) == StartsWith(c, "num_") /\ ~StartsWith(c, "num_corr_")

\* ------------------------------------------------- dict and DataFrame
Range(s) == {s[k] : k \in DOMAIN s}

EmptyDict == [keys |-> <<>>, val |-> <<>>]
\* k in d; the variant never misses
HasKey_Always(d, k) == TRUE
HasKey(d, k) == k \in Range(d.keys)
\* d[k] = v: an existing key keeps its position
DictSet(d, k, v) ==
    [keys |-> IF k \in Range(d.keys) THEN d.keys ELSE Append(d.keys, k),
     val |-> (k :> v) @@ d.val]
\* d[k]; where HasKey is bypassed, the value of d.get(k, zeros)
DictGet(d, k, n) == IF k \in DOMAIN d.val THEN d.val[k] ELSE [r \in 1..n |-> Float(0)]

NoFrame == [columns |-> <<>>, val |-> <<>>, index |-> 0, built |-> FALSE]
\* pd.DataFrame(data): a copy of the columns, in insertion order
DataFrame(d, n) == [columns |-> d.keys, val |-> d.val, index |-> n, built |-> TRUE]
\* df[col] = values
SetColumn(f, col, values) ==
    [f EXCEPT !.columns = IF col \in Range(f.columns) THEN @ ELSE Append(@, col),
              !.val = (col :> values) @@ @]
\* df.loc[mask, col] = np.nan
SetLocNaN(f, mask, col) ==
    [f EXCEPT !.val = (col :> [r \in DOMAIN mask |->
                                  IF mask[r] THEN NaN ELSE f.val[col][r]]) @@ @]
Shape(f) == <<f.index, Len(f.columns)>>

\* mask = np.random.random(rows) < rate; the variant inverts the comparison
MaskBelow_AtLeast(draws, rate) == [r \in DOMAIN draws |-> draws[r] >= rate]
MaskBelow(draws, rate) == [r \in DOMAIN draws |-> draws[r] < rate]

\* ------------------------------------------------------- paths and files
\* Path(output_dir) / name
PathJoin(dir, name) == dir \o "/" \o name
ParquetName(base) == base \o ".parquet"
\* the variant of CsvName repeats the parquet extension
CsvName_ParquetExtension(base) == base \o ".parquet"
CsvName(base) == base \o ".csv"

\* text of a float cell: sign, integer part, two decimals
Abs(x) == IF x < 0 THEN -x ELSE x
FloatText(x) ==
    (IF x < 0 THEN "-" ELSE "") \o Decimal(Abs(x) \div NoiseDen) \o "."
        \o ZeroPad(Decimal((Abs(x) % NoiseDen) * (100 \div NoiseDen)), 2)
\* to_csv renders missing values (NaN, None) as the empty field
CsvCell(c) ==
    CASE c.t = "float" -> FloatText(c.v)
      [] c.t = "int" -> Decimal(c.v)
      [] c.t = "str" -> c.s
      [] OTHER -> ""

\* df.to_parquet(path, index=False, compression="snappy")
ToParquet(f) ==
    [format |-> "parquet", compression |-> "snappy", complete |-> TRUE,
     shape |-> Shape(f), columns |-> f.columns, val |-> f.val]
\* df.to_csv(path, index=False)
ToCsv(f) ==
    [format |-> "csv", complete |-> TRUE, shape |-> Shape(f), header |-> f.columns,
     lines |-> [r \in 1..f.index |->
                  [c \in 1..Len(f.columns) |-> CsvCell(f.val[f.columns[c]][r])]]]
\* what an interrupted write leaves behind
Truncated(fmt) == [format |-> fmt, complete |-> FALSE]

WriteFile(fs, path, content) == (path :> content) @@ fs

\* ----------------------------------------------------------------- state
VARIABLES
    rows, num_cols, cat_cols, missing_rate, correlated_pairs,
    high_missing_cols, output_dir, base_name,   \* the arguments of the call
    pc,                  \* position in generate_dataset
    i,                   \* index of the running for loop
    total_cols,          \* line 29
    rng,                 \* state of the global np.random generator
    data,                \* the dict of columns
    df,                  \* the DataFrame
    numeric_cols_list,   \* line 63
    parquet_file, csv_file,
    stdout,              \* lines printed by this call
    ret,                 \* the value the call returned
    error,               \* the exception that ended the call
    dirs, files,         \* the file system: directories, path -> content
    fsops,               \* file system operations of this call, in order
    called,              \* TRUE in the second call of the process
    prev                 \* the first call's arguments and results

args == <<rows, num_cols, cat_cols, missing_rate, correlated_pairs,
          high_missing_cols, output_dir, base_name>>
locals == <<i, total_cols, data, df, numeric_cols_list, parquet_file, csv_file>>
fs == <<dirs, files, fsops>>
vars == <<args, pc, locals, rng, stdout, ret, error, fs, called, prev>>

NoPrev == [missing_rate |-> 0, df |-> NoFrame, files |-> <<>>, rng |-> 0]

TotalCols == num_cols + correlated_pairs + cat_cols + high_missing_cols + 1

\* 50% missing (line 73), in units of 1/Scale; the variant masks at missing_rate
HighMissingRate_FromArgument == missing_rate
HighMissingRate == Scale \div 2

Init ==
    /\ rows \in 0..MaxRows
    /\ num_cols \in 0..MaxNumCols
    /\ cat_cols \in 0..MaxCatCols
    /\ missing_rate \in MissingRates
    /\ correlated_pairs \in 0..MaxCorrelatedPairs
    /\ high_missing_cols \in 0..MaxHighMissingCols
    /\ \E t \in Targets : output_dir = t[1] /\ base_name = t[2]
    /\ pc = "start"
    /\ i = 0
    /\ total_cols = 0
    /\ rng = 0
    /\ data = EmptyDict
    /\ df = NoFrame
    /\ numeric_cols_list = <<>>
    /\ parquet_file = ""
    /\ csv_file = ""
    /\ stdout = <<>>
    /\ ret = Unset
    /\ error = "none"
    /\ dirs = {}
    /\ files = <<>>
    /\ fsops = <<>>
    /\ called = FALSE
    /\ prev = NoPrev

\* lines 29-38: total_cols, the announcement, the seed, the empty dict
Start ==
    /\ pc = "start"
    /\ total_cols' = TotalCols
    /\ stdout' = <<<<"Generating", rows, TotalCols>>, <<"Creating numeric", num_cols>>>>
    /\ rng' = NpRandomSeed(rng, Seed)
    /\ data' = EmptyDict
    /\ i' = 0
    /\ pc' = "num_loop"
    /\ UNCHANGED <<args, df, numeric_cols_list, parquet_file, csv_file, ret, error,
                   fs, called, prev>>

\* lines 39-40, one iteration
NumericColumn ==
    /\ pc = "num_loop"
    /\ i < num_cols
    /\ data' = DictSet(data, NumName(i), AsFloat32(Randn(rng, rows)))
    /\ rng' = Advance(rng, rows)
    /\ i' = i + 1
    /\ UNCHANGED <<args, pc, total_cols, df, numeric_cols_list, parquet_file, csv_file,
                   stdout, ret, error, fs, called, prev>>

\* line 39 exhausted, line 43
NumericDone ==
    /\ pc = "num_loop"
    /\ i >= num_cols
    /\ stdout' = Append(stdout, <<"Creating correlated", correlated_pairs>>)
    /\ i' = 0
    /\ pc' = "corr_loop"
    /\ UNCHANGED <<args, total_cols, rng, data, df, numeric_cols_list, parquet_file,
                   csv_file, ret, error, fs, called, prev>>

\* lines 44-47, one iteration: the noise is drawn before data[base_col] is read
CorrelatedColumn ==
    /\ pc = "corr_loop"
    /\ i < correlated_pairs
    /\ rng' = Advance(rng, rows)
    /\ LET base_col == NumName(i)
           noise == [r \in 1..rows |-> Mul005(Randn(rng, rows)[r])]
       IN IF HasKey(data, base_col)
          THEN /\ data' = DictSet(data, CorrName(i),
                            AsFloat32([r \in 1..rows |->
                                Add(DictGet(data, base_col, rows)[r], noise[r])]))
               /\ i' = i + 1
               /\ UNCHANGED <<pc, error>>
          ELSE /\ pc' = "error"
               /\ error' = "KeyError"
               /\ UNCHANGED <<data, i>>
    /\ UNCHANGED <<args, total_cols, df, numeric_cols_list, parquet_file, csv_file,
                   stdout, ret, fs, called, prev>>

\* line 44 exhausted, lines 50-51
CorrelatedDone ==
    /\ pc = "corr_loop"
    /\ i >= correlated_pairs
    /\ stdout' = Append(stdout, <<"Creating categorical", cat_cols>>)
    /\ i' = 0
    /\ pc' = "cat_loop"
    /\ UNCHANGED <<args, total_cols, rng, data, df, numeric_cols_list, parquet_file,
                   csv_file, ret, error, fs, called, prev>>

\* lines 52-53, one iteration
CategoricalColumn ==
    /\ pc = "cat_loop"
    /\ i < cat_cols
    /\ data' = DictSet(data, CatName(i), Choice(rng, categories, rows))
    /\ rng' = Advance(rng, rows)
    /\ i' = i + 1
    /\ UNCHANGED <<args, pc, total_cols, df, numeric_cols_list, parquet_file, csv_file,
                   stdout, ret, error, fs, called, prev>>

\* line 52 exhausted, lines 55-56: the target column
Target ==
    /\ pc = "cat_loop"
    /\ i >= cat_cols
    /\ data' = DictSet(data, "target", RandInt(rng, 0, 2, rows))
    /\ rng' = Advance(rng, rows)
    /\ pc' = "build"
    /\ UNCHANGED <<args, i, total_cols, df, numeric_cols_list, parquet_file, csv_file,
                   stdout, ret, error, fs, called, prev>>

\* lines 58-63: the DataFrame and the list of columns to inject into
BuildDataFrame ==
    /\ pc = "build"
    /\ df' = DataFrame(data, rows)
    /\ numeric_cols_list' = SelectSeq(DataFrame(data, rows).columns, IsPlainNumeric)
    /\ stdout' = stdout \o <<<<"Building DataFrame">>, <<"Introducing missing values">>>>
    /\ i' = 0
    /\ pc' = "inject_loop"
    /\ UNCHANGED <<args, total_cols, rng, data, parquet_file, csv_file, ret, error,
                   fs, called, prev>>

\* lines 64-66, one iteration
InjectMissing ==
    /\ pc = "inject_loop"
    /\ i < Len(numeric_cols_list)
    /\ LET col == numeric_cols_list[i + 1]
           mask == MaskBelow(Random(rng, rows), missing_rate)
       IN df' = SetLocNaN(df, mask, col)
    /\ rng' = Advance(rng, rows)
    /\ i' = i + 1
    /\ UNCHANGED <<args, pc, total_cols, data, numeric_cols_list, parquet_file, csv_file,
                   stdout, ret, error, fs, called, prev>>

\* line 64 exhausted, line 69
InjectDone ==
    /\ pc = "inject_loop"
    /\ i >= Len(numeric_cols_list)
    /\ stdout' = Append(stdout, <<"Creating high-missing", high_missing_cols>>)
    /\ i' = 0
    /\ pc' = "high_loop"
    /\ UNCHANGED <<args, total_cols, rng, data, df, numeric_cols_list, parquet_file,
                   csv_file, ret, error, fs, called, prev>>

\* lines 70-74, one iteration
HighMissingColumn ==
    /\ pc = "high_loop"
    /\ i < high_missing_cols
    /\ LET high_missing_col == HighMissingName(i)
           values == AsFloat32(Randn(rng, rows))
           mask == MaskBelow(Random(Advance(rng, rows), rows), HighMissingRate)
       IN df' = SetLocNaN(SetColumn(df, high_missing_col, values), mask, high_missing_col)
    /\ rng' = Advance(Advance(rng, rows), rows)
    /\ i' = i + 1
    /\ UNCHANGED <<args, pc, total_cols, data, numeric_cols_list, parquet_file, csv_file,
                   stdout, ret, error, fs, called, prev>>

\* line 70 exhausted, lines 76-84: mkdir(parents=True, exist_ok=True), the two paths
MakeOutputDir ==
    /\ pc = "high_loop"
    /\ i >= high_missing_cols
    /\ fsops' = Append(fsops, "mkdir")
    /\ \/ /\ dirs' = dirs \cup {output_dir}
          /\ parquet_file' = PathJoin(output_dir, ParquetName(base_name))
          /\ csv_file' = PathJoin(output_dir, CsvName(base_name))
          /\ stdout' = Append(stdout, <<"Writing", PathJoin(output_dir, ParquetName(base_name))>>)
          /\ pc' = "write_parquet"
          /\ UNCHANGED error
       \/ /\ pc' = "error"
          /\ error' = "OSError"
          /\ UNCHANGED <<dirs, parquet_file, csv_file, stdout>>
    /\ UNCHANGED <<args, i, total_cols, rng, data, df, numeric_cols_list, ret, files,
                   called, prev>>

\* lines 85-90: the parquet file and its size; a failed write leaves nothing
\* new or a truncated file
WriteParquet ==
    /\ pc = "write_parquet"
    /\ \/ /\ files' = WriteFile(files, parquet_file, ToParquet(df))
          /\ fsops' = fsops \o <<"to_parquet", "stat">>
          /\ stdout' = stdout \o <<<<"Parquet size">>, <<"Writing", csv_file>>>>
          /\ pc' = "write_csv"
          /\ UNCHANGED error
       \/ /\ files' \in {files, WriteFile(files, parquet_file, Truncated("parquet"))}
          /\ fsops' = Append(fsops, "to_parquet")
          /\ pc' = "error"
          /\ error' = "OSError"
          /\ UNCHANGED stdout
    /\ UNCHANGED <<args, locals, rng, ret, dirs, called, prev>>

\* lines 91-93: the csv file and its size
WriteCsv ==
    /\ pc = "write_csv"
    /\ \/ /\ files' = WriteFile(files, csv_file, ToCsv(df))
          /\ fsops' = fsops \o <<"to_csv", "stat">>
          /\ stdout' = Append(stdout, <<"CSV size">>)
          /\ pc' = "summary"
          /\ UNCHANGED error
       \/ /\ files' \in {files, WriteFile(files, csv_file, Truncated("csv"))}
          /\ fsops' = Append(fsops, "to_csv")
          /\ pc' = "error"
          /\ error' = "OSError"
          /\ UNCHANGED stdout
    /\ UNCHANGED <<args, locals, rng, ret, dirs, called, prev>>

\* the function has no return statement; the variant returns the two paths
ReturnValue_Paths == [t |-> "tuple", items |-> <<parquet_file, csv_file>>]
ReturnValue == None

\* lines 95-99 and the implicit return
Summary ==
    /\ pc = "summary"
    /\ stdout' = stdout \o <<<<"Done">>, <<"Shape", Shape(df)>>,
                              <<"Files created", parquet_file, csv_file>>>>
    /\ ret' = ReturnValue
    /\ pc' = "done"
    /\ UNCHANGED <<args, locals, rng, error, fs, called, prev>>

\* A second call in the same process, with the same arguments except
\* missing_rate: the generator state and the file system are what the first
\* call left behind (the output directory and both files exist).
SecondCall ==
    /\ pc = "done"
    /\ ~called
    /\ called' = TRUE
    /\ prev' = [missing_rate |-> missing_rate, df |-> df, files |-> files, rng |-> rng]
    /\ missing_rate' \in MissingRates
    /\ pc' = "start"
    /\ i' = 0
    /\ total_cols' = 0
    /\ data' = EmptyDict
    /\ df' = NoFrame
    /\ numeric_cols_list' = <<>>
    /\ parquet_file' = ""
    /\ csv_file' = ""
    /\ stdout' = <<>>
    /\ ret' = Unset
    /\ fsops' = <<>>
    /\ UNCHANGED <<rows, num_cols, cat_cols, correlated_pairs, high_missing_cols,
                   output_dir, base_name, rng, error, dirs, files>>

Next ==
    \/ Start
    \/ NumericColumn
    \/ NumericDone
    \/ CorrelatedColumn
    \/ CorrelatedDone
    \/ CategoricalColumn
    \/ Target
    \/ BuildDataFrame
    \/ InjectMissing
    \/ InjectDone
    \/ HighMissingColumn
    \/ MakeOutputDir
    \/ WriteParquet
    \/ WriteCsv
    \/ Summary
    \/ SecondCall

Spec == Init /\ [][Next]_vars

\* ================================================================ claims
\* Positions in the seeded stream, counted in draws since np.random.seed.
Seeded == Seed % 256
NoiseAt(k) == rows * num_cols + k * rows
MaskAt(k) == rows * (num_cols + correlated_pairs + cat_cols + 1) + k * rows
HighMaskAt(k) == rows * (2 * num_cols + correlated_pairs + cat_cols + 1)
                    + 2 * k * rows + rows
DrawsOfRun == rows * (2 * num_cols + correlated_pairs + cat_cols + 1
                      + 2 * high_missing_cols)

AfterInjection == pc \in {"high_loop", "write_parquet", "write_csv", "summary", "done"}
                  \/ (pc = "error" /\ df.built)
AfterHighMissing == pc \in {"write_parquet", "write_csv", "summary", "done"}
\* the number of plain-numeric columns the injection loop has handled
Injected == IF pc = "inject_loop" THEN i ELSE num_cols
HasNaN(col) == \E r \in DOMAIN col : IsNaN(col[r])
HasValue(col) == \E r \in DOMAIN col : ~IsNaN(col[r])

\* C1: a completed run's table has exactly `rows` rows and
\* num_cols + correlated_pairs + cat_cols + high_missing_cols + 1 distinctly
\* named columns, each of `rows` cells, and that column count is the total_cols
\* computed and announced first.
C1_Shape ==
    (pc = "done" /\ correlated_pairs <= num_cols) =>
        /\ Shape(df) = <<rows, num_cols + correlated_pairs + cat_cols
                                + high_missing_cols + 1>>
        /\ Cardinality(Range(df.columns)) = Len(df.columns)
        /\ \A c \in Range(df.columns) : Len(df.val[c]) = rows
        /\ total_cols = Len(df.columns)
        /\ stdout[1] = <<"Generating", rows, Len(df.columns)>>

C1_Witness ==
    /\ pc = "done"
    /\ rows = 2 /\ num_cols = 2 /\ correlated_pairs = 2 /\ cat_cols = 1
    /\ high_missing_cols = 1
    /\ Shape(df) = <<2, 7>>

\* C2 as claimed: a completed call returns the pair (parquet_path, csv_path).
C2_ReturnsPaths ==
    pc = "done" =>
        ret = [t |-> "tuple",
               items |-> <<output_dir \o "/" \o base_name \o ".parquet",
                           output_dir \o "/" \o base_name \o ".csv">>]

\* C2 amended: a completed call returns None; the two files it wrote are at
\* <output_dir>/<base_name>.parquet and <output_dir>/<base_name>.csv, and the
\* last line it prints names those two paths.
C2_ReturnsNone ==
    pc = "done" =>
        /\ ret = None
        /\ parquet_file = output_dir \o "/" \o base_name \o ".parquet"
        /\ csv_file = output_dir \o "/" \o base_name \o ".csv"
        /\ {parquet_file, csv_file} \subseteq DOMAIN files
        /\ files[parquet_file].complete /\ files[csv_file].complete
        /\ stdout[Len(stdout)] = <<"Files created", parquet_file, csv_file>>

C2_Witness ==
    /\ pc = "done"
    /\ ret = None
    /\ output_dir = "out"
    /\ "out/bench.parquet" \in DOMAIN files
    /\ "out/bench.csv" \in DOMAIN files

\* C3: two completed runs with identical parameters consume the same draws
\* (the generator ends in the same state, DrawsOfRun draws after the seed) and
\* produce the same table and the same two files.
C3_Deterministic ==
    (called /\ pc = "done" /\ missing_rate = prev.missing_rate) =>
        /\ df = prev.df
        /\ files = prev.files
        /\ rng = prev.rng
        /\ rng = Advance(Seeded, DrawsOfRun)

C3_Witness ==
    /\ called /\ pc = "done"
    /\ missing_rate = prev.missing_rate
    /\ missing_rate = Scale \div 2
    /\ rows = 2 /\ num_cols = 2 /\ correlated_pairs = 1 /\ cat_cols = 1
    /\ high_missing_cols = 1
    /\ \E k \in 0..1 : HasNaN(df.val[NumName(k)]) /\ HasValue(df.val[NumName(k)])
    /\ df = prev.df

\* C4: the injection loop runs over exactly the num_cols columns num_NNNN, in
\* order; each handled column is its clean column with NaN where its own mask
\* (its own `rows` draws, below missing_rate) is set; every other column of the
\* table built from the dict is cell for cell what the dict holds.
C4_InjectionFrame ==
    (pc = "inject_loop" \/ AfterInjection) =>
        /\ numeric_cols_list = [k \in 1..num_cols |-> NumName(k - 1)]
        /\ \A k \in 0..(num_cols - 1) : \A r \in 1..rows :
              df.val[NumName(k)][r] =
                  IF k < Injected
                     /\ Random(Advance(Seeded, MaskAt(k)), rows)[r] < missing_rate
                  THEN NaN
                  ELSE data.val[NumName(k)][r]
        /\ \A c \in Range(data.keys) :
              (\A k \in 0..(num_cols - 1) : c # NumName(k)) => df.val[c] = data.val[c]

C4_Witness ==
    /\ pc = "high_loop"
    /\ rows = 2 /\ num_cols = 2 /\ correlated_pairs = 2 /\ cat_cols = 1
    /\ HasNaN(df.val[NumName(0)]) /\ HasValue(df.val[NumName(0)])
    /\ df.val[NumName(0)] # df.val[NumName(1)]
    /\ df.val[CorrName(0)] = data.val[CorrName(0)]

\* C5: the dict's columns never hold NaN (correlated column k is computed from
\* the clean base column), and in the table every cell of correlated column k
\* is base-clean-value plus noise and not NaN, also where the base cell is NaN.
C5_CorrelatedClean ==
    /\ \A c \in Range(data.keys) : \A r \in DOMAIN data.val[c] : ~IsNaN(data.val[c][r])
    /\ df.built =>
          \A k \in 0..(correlated_pairs - 1) : \A r \in 1..rows :
              /\ ~IsNaN(df.val[CorrName(k)][r])
              /\ df.val[CorrName(k)][r] =
                    Float(data.val[NumName(k)][r].v
                          + (Randn(Advance(Seeded, NoiseAt(k)), rows)[r].v \div NoiseDen))

C5_Witness ==
    /\ pc = "done"
    /\ correlated_pairs >= 1
    /\ \E r \in 1..rows :
          /\ IsNaN(df.val[NumName(0)][r])
          /\ ~IsNaN(df.val[CorrName(0)][r])
          /\ df.val[CorrName(0)][r] # data.val[NumName(0)][r]

\* C6: a table holds a high-missing column only once the injection loop is
\* over; the cell r of high-missing column k is NaN exactly when its own draw
\* is below 0.5, whatever missing_rate is (so the same cells are NaN in two
\* runs that differ in missing_rate only); and a step of the high-missing
\* loop changes no cell of a column the table already has.
C6_HighMissingState ==
    /\ (\E k \in 0..(high_missing_cols - 1) : HighMissingName(k) \in Range(df.columns))
          => (AfterInjection /\ Injected = num_cols)
    /\ AfterHighMissing =>
          \A k \in 0..(high_missing_cols - 1) : \A r \in 1..rows :
              /\ IsNaN(df.val[HighMissingName(k)][r])
                    <=> 2 * Random(Advance(Seeded, HighMaskAt(k)), rows)[r] < Scale
              /\ called =>
                    (IsNaN(df.val[HighMissingName(k)][r])
                       <=> IsNaN(prev.df.val[HighMissingName(k)][r]))

C6_HighMissingStep ==
    pc = "high_loop" =>
        /\ SubSeq(df'.columns, 1, Len(df.columns)) = df.columns
        /\ \A c \in Range(df.columns) : df'.val[c] = df.val[c]

C6_HighMissing == []C6_HighMissingState /\ [][C6_HighMissingStep]_vars

C6_Witness ==
    /\ called /\ pc = "done"
    /\ missing_rate # prev.missing_rate
    /\ rows = 2 /\ num_cols = 2 /\ high_missing_cols = 1
    /\ HasNaN(df.val[HighMissingName(0)]) /\ HasValue(df.val[HighMissingName(0)])
    /\ df.val[NumName(0)] # prev.df.val[NumName(0)]

\* C7: in every table, for every missing_rate, the column "target" is there
\* exactly once and each of its `rows` cells is the integer 0 or 1 (never NaN).
C7_TargetBinary ==
    df.built =>
        /\ Cardinality({k \in DOMAIN df.columns : df.columns[k] = "target"}) = 1
        /\ Len(df.val["target"]) = rows
        /\ \A r \in 1..rows : df.val["target"][r] \in {Int64(0), Int64(1)}

C7_Witness ==
    /\ pc = "done"
    /\ missing_rate >= Scale
    /\ rows = 2 /\ num_cols >= 1
    /\ \A r \in 1..rows : IsNaN(df.val[NumName(0)][r])
    /\ {df.val["target"][r] : r \in 1..rows} = {Int64(0), Int64(1)}

\* C8: once the injection loop is over, missing_rate >= 1 leaves every cell of
\* every plain-numeric column NaN, and missing_rate <= 0 leaves every
\* plain-numeric column as the dict holds it.
C8_DegenerateMasks ==
    AfterInjection =>
        /\ missing_rate >= Scale =>
              \A k \in 0..(num_cols - 1) : \A r \in 1..rows : IsNaN(df.val[NumName(k)][r])
        /\ missing_rate <= 0 =>
              \A k \in 0..(num_cols - 1) : df.val[NumName(k)] = data.val[NumName(k)]

C8_Witness ==
    /\ called /\ pc = "done"
    /\ prev.missing_rate < 0 /\ missing_rate > Scale
    /\ rows = 2 /\ num_cols = 2
    /\ ~HasNaN(prev.df.val[NumName(1)])
    /\ ~HasValue(df.val[NumName(1)])

\* C9: with correlated_pairs > num_cols the run gets no further than the
\* correlated loop; it ends in a KeyError at index num_cols, with the first
\* num_cols correlated columns in the dict, no table assembled, no file system
\* operation made and no file written; and a KeyError has no other cause.
C9_UnguardedPairs ==
    /\ correlated_pairs > num_cols =>
          /\ pc \in {"start", "num_loop", "corr_loop", "error"}
          /\ pc = "error" =>
                /\ error = "KeyError"
                /\ i = num_cols
                /\ \A k \in 0..(num_cols - 1) : CorrName(k) \in Range(data.keys)
                /\ CorrName(num_cols) \notin Range(data.keys)
                /\ ~df.built
                /\ fsops = <<>>
                /\ DOMAIN files = {}
                /\ ret = Unset
    /\ error = "KeyError" => correlated_pairs > num_cols

C9_Witness ==
    /\ pc = "error" /\ error = "KeyError"
    /\ rows = 2 /\ num_cols = 2 /\ correlated_pairs = 3
    /\ Len(data.keys) = 4
    /\ fsops = <<>>

\* C10: the file system operations of a run are, in this order, mkdir, the
\* parquet write, its stat, the csv write, its stat; the directory exists
\* before the parquet write; the complete parquet file of the final table is
\* on disk when the csv write starts and stays there if that write fails; both
\* files hold the same final table; a failed run takes no further step.
SerializationOrder == <<"mkdir", "to_parquet", "stat", "to_csv", "stat">>

C10_SerializationOrder ==
    /\ Len(fsops) <= Len(SerializationOrder)
    /\ fsops = SubSeq(SerializationOrder, 1, Len(fsops))
    /\ Len(fsops) >= 2 => output_dir \in dirs
    /\ (Len(fsops) >= 3 \/ pc \in {"write_csv", "summary", "done"}) =>
          /\ parquet_file \in DOMAIN files
          /\ files[parquet_file] = ToParquet(df)
    /\ pc \in {"summary", "done"} =>
          /\ csv_file # parquet_file
          /\ csv_file \in DOMAIN files
          /\ files[csv_file] = ToCsv(df)
    /\ pc = "error" => ~ENABLED Next

C10_Witness ==
    /\ pc = "error" /\ error = "OSError"
    /\ fsops = <<"mkdir", "to_parquet", "stat", "to_csv">>
    /\ files[parquet_file] = ToParquet(df)
    /\ csv_file \in DOMAIN files
    /\ ~files[csv_file].complete
    /\ rows = 2 /\ num_cols = 2
====
